---- MODULE Spec2Model ----
(***************************************************************************)
(* Model of acetylene's burn engine (src/lib.rs).                          *)
(*                                                                         *)
(* burn_image is one sequential, blocking procedure; every system call or  *)
(* channel send it performs is one step of the model, so that the consumer *)
(* dropping its end of the channel and every I/O outcome (success, short   *)
(* read, short write, failure) can interleave where the code allows it.    *)
(* A failed unwrap()/expect() is the state pc = "panicked".                *)
(*                                                                         *)
(* device_path and get_device_list (the device catalog) are modelled under *)
(* their own specifications, PathSpec and ListSpec: the catalog, the input *)
(* and the answers of the file system are drawn in the initial state.      *)
(***************************************************************************)
EXTENDS Integers, Sequences, FiniteSets, TLC

\* the byte values files hold in the model
ByteVals == {0, 1}

\* ---------------------------------------------------------------- bounds
MaxImageLen == 4      \* longest source image
MaxDevLen == 2        \* longest initial content of the destination
HashMod == 11         \* size of the digest space of the abstract hash
ChunkSize == 2        \* bytes per chunk in the model
MaxDevices == 2       \* longest catalog given to device_path
MaxEntries == 2       \* most entries of /dev/disk/by-id/

\* const BUFFER4MB: the buffer size, 4 MiB in the source, scaled down to
\* ChunkSize bytes
BUFFER4MB == ChunkSize

VARIABLES
    imageFile,   \* content of the file config.image
    deviceFile,  \* content of the file/device config.device
    settings,    \* config.settings
    pc,          \* position of burn_image
    errs,        \* the calls that have returned Err so far
    handles,     \* the open File handles burn_image owns
    total,       \* let total
    verify,      \* let verify
    hasher,      \* let mut hasher
    count,       \* let mut count
    buffer,      \* let mut buffer
    n,           \* the n of Ok(n)
    digest,      \* let digest (in the Ok(0) arm)
    imgPos,      \* read offset of the image handle
    devPos,      \* write offset of the device handle
    synced,      \* number of device bytes made durable by sync_data
    events,      \* the Progress values accepted by the channel, in order
    rxAlive,     \* the consumer still holds the Receiver
    \* device_path
    devices,     \* devices: &Vec<Device>
    input,       \* input: &String
    fs,          \* what canonicalize answers for each path
    dpPc,        \* position of device_path
    dpResult,    \* the Option<String> device_path returned
    \* get_device_list
    dirEntries,  \* what read_dir("/dev/disk/by-id/") yields
    scanPc,      \* position of get_device_list
    scanIdx,     \* number of directory entries consumed by the for loop
    scanErr,     \* the call of get_device_list that returned Err
    paths        \* let mut paths

burnVars == <<imageFile, deviceFile, settings, pc, errs, handles, total,
              verify, hasher, count, buffer, n, digest, imgPos, devPos,
              synced, events, rxAlive>>

pathVars == <<devices, input, fs, dpPc, dpResult>>

listVars == <<dirEntries, scanPc, scanIdx, scanErr, paths>>

catalogVars == <<pathVars, listVars>>

vars == <<burnVars, pathVars, listVars>>

\* ---------------------------------------------------------------- helpers
Min(a, b) == IF a < b THEN a ELSE b

SeqsUpTo(S, k) == UNION {[1..i -> S] : i \in 0..k}

\* buffer[..k]
Slice(buf, k) == SubSeq(buf, 1, k)

\* enum Progress
StartEv(t) == [type |-> "Start", total |-> t]
\* Variant of ProgressEv: the two fields are filled the wrong way round.
ProgressEvSwapped(c, t) == [type |-> "Progress", count |-> t, total |-> c]
ProgressEv(c, t) == [type |-> "Progress", count |-> c, total |-> t]
EndEv(d) == [type |-> "End", digest |-> d]
ErrorEv == [type |-> "Error"]

\* Option<Vec<u8>>
None == <<>>
Some(x) == <<x>>

\* Sha256 (crate sha2): an incremental hash, abstracted as an order- and
\* length-sensitive fold over the absorbed bytes.
Sha256Default == 1

RECURSIVE Sha256Input(_, _)
Sha256Input(h, bytes) ==
    IF bytes = <<>> THEN h
    ELSE Sha256Input((h * 3 + Head(bytes) + 1) % HashMod, Tail(bytes))

Sha256Result(h) == (h * 5 + 3) % HashMod

\* Variant of HasherInput: hashes the whole buffer, stale tail included,
\* instead of the n bytes just read.
HasherInputWholeBuffer(h, v, buf, k) ==
    IF v THEN Sha256Input(h, buf) ELSE h

\* hasher.input(&buffer[..n]) under `if verify`
HasherInput(h, v, buf, k) == IF v THEN Sha256Input(h, Slice(buf, k)) ELSE h

\* Variant of DigestOf: the digest is reported whether or not Verify is set.
DigestAlways(v, h) == Some(Sha256Result(h))

\* let digest = if verify { Some(hasher.result()) } else { None }
DigestOf(v, h) == IF v THEN Some(Sha256Result(h)) ELSE None

\* Variant of CountAdd: count = n, the size of the last chunk only.
CountSet(c, k) == k

\* count += n as u64
CountAdd(c, k) == c + k

\* image.read(&mut *buffer) returning Ok(k): the first k bytes of the buffer
\* are overwritten, the rest keeps what earlier iterations left there.
ReadInto(buf, img, pos, k) ==
    [i \in 1..Len(buf) |-> IF i <= k THEN img[pos + i] ELSE buf[i]]

\* device.write(data) accepting m bytes at offset pos of a file opened
\* with write(true) only: no truncation, the file grows when written past
\* its end.
WriteAt(dev, pos, data, m) ==
    [i \in 1..(IF pos + m > Len(dev) THEN pos + m ELSE Len(dev)) |->
        IF i > pos /\ i <= pos + m THEN data[i - pos] ELSE dev[i]]

Finished == pc \in {"done", "panicked"}

\* ------------------------------------------------------- device catalog
\* the literal "/tmp/plop.img" of device_path
SentinelPath == "/tmp/plop.img"

\* Err(NotFound) of canonicalize
NoSuchFile == "ENOENT"

\* canonical paths of device nodes
DevicePaths == {"/dev/x", "/dev/y"}

\* the names catalog entries carry: a plain name, a name that is also a
\* device path, and the sentinel
DeviceNames == {"sd1", "/dev/x", SentinelPath}

\* what the user may type: the sentinel, a name, canonical paths and a
\* symbolic link
Inputs == {SentinelPath, "sd1", "/dev/x", "/dev/y", "/lnk"}

\* struct Device
Device(name, path, mbytes) ==
    [name |-> name, path |-> path, mbytes |-> mbytes]

\* The file systems of the model: every path either does not exist or has
\* a canonical form; a canonical path that exists is its own canonical form.
FileSystems ==
    {f \in [Inputs -> DevicePaths \cup {NoSuchFile}] :
        \A q \in DevicePaths : f[q] \in {q, NoSuchFile}}

\* device_path and get_device_list are not running
PathIdle ==
    /\ devices = <<>>
    /\ input = SentinelPath
    /\ fs = [q \in Inputs |-> NoSuchFile]
    /\ dpPc = "idle"
    /\ dpResult = None

ListIdle ==
    /\ dirEntries = <<>>
    /\ scanPc = "idle"
    /\ scanIdx = 0
    /\ scanErr = "none"
    /\ paths = <<>>

\* ---------------------------------------------------------------- Init
Init ==
    /\ PathIdle
    /\ ListIdle
    /\ imageFile \in SeqsUpTo(ByteVals, MaxImageLen)
    /\ deviceFile \in SeqsUpTo(ByteVals, MaxDevLen)
    /\ settings \in {{}, {"Verify"}}
    /\ pc = "stat"
    /\ errs = {}
    /\ handles = {}
    /\ total = 0
    /\ verify = FALSE
    /\ hasher = Sha256Default
    /\ count = 0
    /\ buffer = [i \in 1..BUFFER4MB |-> 0]
    /\ n = 0
    /\ digest = None
    /\ imgPos = 0
    /\ devPos = 0
    /\ synced = 0
    /\ events = <<>>
    /\ rxAlive = TRUE

\* A failed unwrap()/expect(): the thread unwinds, dropping its handles.
Panic(why) ==
    /\ pc' = "panicked"
    /\ errs' = errs \cup {why}
    /\ handles' = {}

\* ---------------------------------------------------------------- actions
\* let total = metadata(config.image.clone()).unwrap().len();
StatOk ==
    /\ pc = "stat"
    /\ total' = Len(imageFile)
    /\ pc' = "openImage"
    /\ UNCHANGED catalogVars
    /\ UNCHANGED <<imageFile, deviceFile, settings, errs, handles, verify,
                   hasher, count, buffer, n, digest, imgPos, devPos, synced,
                   events, rxAlive>>

\* Variant of StatFail: the error is swallowed (a size of 0 is assumed) and
\* the burn goes on.
StatFailIgnored ==
    /\ pc = "stat"
    /\ errs' = errs \cup {"stat"}
    /\ total' = 0
    /\ pc' = "openImage"
    /\ UNCHANGED catalogVars
    /\ UNCHANGED <<imageFile, deviceFile, settings, handles, verify, hasher,
                   count, buffer, n, digest, imgPos, devPos, synced, events,
                   rxAlive>>

StatFail ==
    /\ pc = "stat"
    /\ Panic("stat")
    /\ UNCHANGED catalogVars
    /\ UNCHANGED <<imageFile, deviceFile, settings, total, verify, hasher,
                   count, buffer, n, digest, imgPos, devPos, synced, events,
                   rxAlive>>

\* let mut image = File::open(config.image).expect("Can't open image");
OpenImageOk ==
    /\ pc = "openImage"
    /\ handles' = handles \cup {"image"}
    /\ imgPos' = 0
    /\ pc' = "openDevice"
    /\ UNCHANGED catalogVars
    /\ UNCHANGED <<imageFile, deviceFile, settings, errs, total, verify,
                   hasher, count, buffer, n, digest, devPos, synced, events,
                   rxAlive>>

OpenImageFail ==
    /\ pc = "openImage"
    /\ Panic("openImage")
    /\ UNCHANGED catalogVars
    /\ UNCHANGED <<imageFile, deviceFile, settings, total, verify, hasher,
                   count, buffer, n, digest, imgPos, devPos, synced, events,
                   rxAlive>>

\* Variant of OpenDeviceOk: the device is opened with truncate(true).
OpenDeviceTruncate ==
    /\ pc = "openDevice"
    /\ handles' = handles \cup {"device"}
    /\ deviceFile' = <<>>
    /\ devPos' = 0
    /\ verify' = ("Verify" \in settings)
    /\ hasher' = Sha256Default
    /\ count' = 0
    /\ buffer' = [i \in 1..BUFFER4MB |-> 0]
    /\ pc' = "sendStart"
    /\ UNCHANGED catalogVars
    /\ UNCHANGED <<imageFile, settings, errs, total, n, digest, imgPos,
                   synced, events, rxAlive>>

\* let mut device = OpenOptions::new().write(true).open(config.device)
\*     .expect("Can't open device");
\* followed by the initialisation of verify, hasher, count and buffer.
OpenDeviceOk ==
    /\ pc = "openDevice"
    /\ handles' = handles \cup {"device"}
    /\ devPos' = 0
    /\ verify' = ("Verify" \in settings)
    /\ hasher' = Sha256Default
    /\ count' = 0
    /\ buffer' = [i \in 1..BUFFER4MB |-> 0]
    /\ pc' = "sendStart"
    /\ UNCHANGED catalogVars
    /\ UNCHANGED <<imageFile, deviceFile, settings, errs, total, n, digest,
                   imgPos, synced, events, rxAlive>>

OpenDeviceFail ==
    /\ pc = "openDevice"
    /\ Panic("openDevice")
    /\ UNCHANGED catalogVars
    /\ UNCHANGED <<imageFile, deviceFile, settings, total, verify, hasher,
                   count, buffer, n, digest, imgPos, devPos, synced, events,
                   rxAlive>>

\* tx.send(ev).unwrap() with the Receiver alive: the value is queued.
SendOk(ev, next) ==
    /\ rxAlive
    /\ events' = Append(events, ev)
    /\ pc' = next
    /\ handles' = IF next = "done" THEN {} ELSE handles
    /\ UNCHANGED errs

\* Variant of SendFail: the Err of send is discarded and the loop goes on.
SendFailIgnored ==
    /\ ~rxAlive
    /\ errs' = errs \cup {"send"}
    /\ pc' = "read"
    /\ UNCHANGED <<events, handles>>

\* tx.send(ev).unwrap() with the Receiver dropped: send returns Err and
\* unwrap panics.
SendFail ==
    /\ ~rxAlive
    /\ Panic("send")
    /\ UNCHANGED events

\* tx.send(Progress::Start{total}).unwrap();
SendStart ==
    /\ pc = "sendStart"
    /\ \/ SendOk(StartEv(total), "read")
       \/ SendFail
    /\ UNCHANGED catalogVars
    /\ UNCHANGED <<imageFile, deviceFile, settings, total, verify, hasher,
                   count, buffer, n, digest, imgPos, devPos, synced, rxAlive>>

\* Variant of ReadEof: Ok(0) is taken for "nothing yet" and the read is
\* retried, so the loop spins at end of input.
ReadEofRetry ==
    /\ pc = "read"
    /\ imgPos = Len(imageFile)
    /\ n' = 0
    /\ pc' = "read"
    /\ UNCHANGED catalogVars
    /\ UNCHANGED <<imageFile, deviceFile, settings, errs, handles, total,
                   verify, hasher, count, buffer, digest, imgPos, devPos,
                   synced, events, rxAlive>>

\* image.read(&mut *buffer) => Ok(0): end of input; the digest is computed.
ReadEof ==
    /\ pc = "read"
    /\ imgPos = Len(imageFile)
    /\ n' = 0
    /\ digest' = DigestOf(verify, hasher)
    /\ pc' = "sendEnd"
    /\ UNCHANGED catalogVars
    /\ UNCHANGED <<imageFile, deviceFile, settings, errs, handles, total,
                   verify, hasher, count, buffer, imgPos, devPos, synced,
                   events, rxAlive>>

\* Variant of ReadSome: Ok(0) is handled by the Ok(n) arm as well, so an
\* empty read is written and reported like a chunk.
ReadSomeOrNone ==
    /\ pc = "read"
    /\ \E k \in 0..Min(BUFFER4MB, Len(imageFile) - imgPos) :
        /\ n' = k
        /\ buffer' = ReadInto(buffer, imageFile, imgPos, k)
        /\ imgPos' = imgPos + k
        /\ count' = CountAdd(count, k)
        /\ hasher' = HasherInput(hasher, verify, buffer', k)
    /\ pc' = "write"
    /\ UNCHANGED catalogVars
    /\ UNCHANGED <<imageFile, deviceFile, settings, errs, handles, total,
                   verify, digest, devPos, synced, events, rxAlive>>

\* image.read(&mut *buffer) => Ok(n), n > 0: any number of bytes up to the
\* buffer size and the rest of the file; then count += n and, under
\* verify, hasher.input(&buffer[..n]).
ReadSome ==
    /\ pc = "read"
    /\ \E k \in 1..Min(BUFFER4MB, Len(imageFile) - imgPos) :
        /\ n' = k
        /\ buffer' = ReadInto(buffer, imageFile, imgPos, k)
        /\ imgPos' = imgPos + k
        /\ count' = CountAdd(count, k)
        /\ hasher' = HasherInput(hasher, verify, buffer', k)
    /\ pc' = "write"
    /\ UNCHANGED catalogVars
    /\ UNCHANGED <<imageFile, deviceFile, settings, errs, handles, total,
                   verify, digest, devPos, synced, events, rxAlive>>

\* image.read(&mut *buffer) => Err(_)
ReadFail ==
    /\ pc = "read"
    /\ errs' = errs \cup {"read"}
    /\ pc' = "sendError"
    /\ UNCHANGED catalogVars
    /\ UNCHANGED <<imageFile, deviceFile, settings, handles, total, verify,
                   hasher, count, buffer, n, digest, imgPos, devPos, synced,
                   events, rxAlive>>

\* device.write(&buffer[..n]).unwrap(): write accepts m <= n bytes and
\* returns Ok(m); the return value is discarded.
WriteOk ==
    /\ pc = "write"
    /\ \E m \in 0..n :
        /\ deviceFile' = WriteAt(deviceFile, devPos, Slice(buffer, n), m)
        /\ devPos' = devPos + m
    /\ pc' = "sync"
    /\ UNCHANGED catalogVars
    /\ UNCHANGED <<imageFile, settings, errs, handles, total, verify, hasher,
                   count, buffer, n, digest, imgPos, synced, events, rxAlive>>

WriteFail ==
    /\ pc = "write"
    /\ Panic("write")
    /\ UNCHANGED catalogVars
    /\ UNCHANGED <<imageFile, deviceFile, settings, total, verify, hasher,
                   count, buffer, n, digest, imgPos, devPos, synced, events,
                   rxAlive>>

\* device.sync_data().unwrap();
SyncOk ==
    /\ pc = "sync"
    /\ synced' = devPos
    /\ pc' = "sendProgress"
    /\ UNCHANGED catalogVars
    /\ UNCHANGED <<imageFile, deviceFile, settings, errs, handles, total,
                   verify, hasher, count, buffer, n, digest, imgPos, devPos,
                   events, rxAlive>>

SyncFail ==
    /\ pc = "sync"
    /\ Panic("sync")
    /\ UNCHANGED catalogVars
    /\ UNCHANGED <<imageFile, deviceFile, settings, total, verify, hasher,
                   count, buffer, n, digest, imgPos, devPos, synced, events,
                   rxAlive>>

\* tx.send(Progress::Progress{count, total}).unwrap();
SendProgress ==
    /\ pc = "sendProgress"
    /\ \/ SendOk(ProgressEv(count, total), "read")
       \/ SendFail
    /\ UNCHANGED catalogVars
    /\ UNCHANGED <<imageFile, deviceFile, settings, total, verify, hasher,
                   count, buffer, n, digest, imgPos, devPos, synced, rxAlive>>

\* tx.send(Progress::End{digest}).unwrap(); break;
SendEnd ==
    /\ pc = "sendEnd"
    /\ \/ SendOk(EndEv(digest), "done")
       \/ SendFail
    /\ UNCHANGED catalogVars
    /\ UNCHANGED <<imageFile, deviceFile, settings, total, verify, hasher,
                   count, buffer, n, digest, imgPos, devPos, synced, rxAlive>>

\* Variant of SendError: the break after the send is missing, so the loop
\* goes on reading.
SendErrorNoBreak ==
    /\ pc = "sendError"
    /\ \/ SendOk(ErrorEv, "read")
       \/ SendFail
    /\ UNCHANGED catalogVars
    /\ UNCHANGED <<imageFile, deviceFile, settings, total, verify, hasher,
                   count, buffer, n, digest, imgPos, devPos, synced, rxAlive>>

\* tx.send(Progress::Error).unwrap(); break;
SendError ==
    /\ pc = "sendError"
    /\ \/ SendOk(ErrorEv, "done")
       \/ SendFail
    /\ UNCHANGED catalogVars
    /\ UNCHANGED <<imageFile, deviceFile, settings, total, verify, hasher,
                   count, buffer, n, digest, imgPos, devPos, synced, rxAlive>>

\* The consumer drops the Receiver while burn_image is running.
RxDrop ==
    /\ rxAlive
    /\ ~Finished
    /\ rxAlive' = FALSE
    /\ UNCHANGED catalogVars
    /\ UNCHANGED <<imageFile, deviceFile, settings, pc, errs, handles, total,
                   verify, hasher, count, buffer, n, digest, imgPos, devPos,
                   synced, events>>

Next ==
    \/ StatOk \/ StatFail
    \/ OpenImageOk \/ OpenImageFail
    \/ OpenDeviceOk \/ OpenDeviceFail
    \/ SendStart
    \/ ReadEof \/ ReadSome \/ ReadFail
    \/ WriteOk \/ WriteFail
    \/ SyncOk \/ SyncFail
    \/ SendProgress \/ SendEnd \/ SendError
    \/ RxDrop

Spec == Init /\ [][Next]_vars

\* A step of burn_image in which the call it is at returns: the thread is
\* scheduled and a system call or send that does not fail completes.
BurnStep ==
    \/ StatOk \/ OpenImageOk \/ OpenDeviceOk
    \/ SendStart
    \/ ReadEof \/ ReadSome
    \/ WriteOk \/ SyncOk
    \/ SendProgress \/ SendEnd \/ SendError

FairSpec == Init /\ [][Next]_vars /\ WF_vars(BurnStep)

TypeOK ==
    /\ pc \in {"stat", "openImage", "openDevice", "sendStart", "read",
               "write", "sync", "sendProgress", "sendEnd", "sendError",
               "done", "panicked"}
    /\ errs \subseteq {"stat", "openImage", "openDevice", "read", "write",
                      "sync", "send"}
    /\ handles \subseteq {"image", "device"}
    /\ Len(buffer) = BUFFER4MB
    /\ n \in 0..BUFFER4MB
    /\ imgPos \in 0..Len(imageFile)

\* ------------------------------------------------------------ device_path
\* burn_image is not running
BurnIdle ==
    /\ imageFile = <<>>
    /\ deviceFile = <<>>
    /\ settings = {}
    /\ pc = "idle"
    /\ errs = {}
    /\ handles = {}
    /\ total = 0
    /\ verify = FALSE
    /\ hasher = Sha256Default
    /\ count = 0
    /\ buffer = [i \in 1..BUFFER4MB |-> 0]
    /\ n = 0
    /\ digest = None
    /\ imgPos = 0
    /\ devPos = 0
    /\ synced = 0
    /\ events = <<>>
    /\ rxAlive = TRUE

\* the indices of the entries whose name is the input
NameMatches(devs, inp) == {i \in 1..Len(devs) : devs[i].name = inp}

\* Variant of NameLookup: the name of the entry is returned, not its path.
NameLookupReturnsName(devs, inp) ==
    LET I == NameMatches(devs, inp) IN
    IF I = {} THEN None
    ELSE Some(devs[CHOOSE i \in I : \A j \in I : i <= j].name)

\* for device in devices.iter() { if *input == device.name { return
\* Some(device.path.clone()) } }: the first entry with that name
NameLookup(devs, inp) ==
    LET I == NameMatches(devs, inp) IN
    IF I = {} THEN None
    ELSE Some(devs[CHOOSE i \in I : \A j \in I : i <= j].path)

\* Path::new(input).canonicalize(): Ok(path) or Err
Canonicalize(f, inp) == f[inp]

\* for device in devices.iter() { if path == device.path { return
\* Some(path.clone()) } }
PathLookup(devs, path) ==
    IF \E i \in 1..Len(devs) : devs[i].path = path THEN Some(path) ELSE None

\* canonicalize(..).unwrap() panics: the input is neither the sentinel nor
\* a name, and it has no canonical form
DevicePathPanics(devs, inp, f) ==
    /\ inp # SentinelPath
    /\ NameLookup(devs, inp) = None
    /\ Canonicalize(f, inp) = NoSuchFile

\* the value device_path returns when it does not panic
DevicePathValue(devs, inp, f) ==
    IF inp = SentinelPath THEN Some(inp)
    ELSE IF NameLookup(devs, inp) # None THEN NameLookup(devs, inp)
    ELSE PathLookup(devs, Canonicalize(f, inp))

PathInit ==
    /\ BurnIdle
    /\ ListIdle
    /\ devices \in SeqsUpTo({Device(nm, q, 1) : nm \in DeviceNames,
                                                q \in DevicePaths},
                             MaxDevices)
    /\ input \in Inputs
    /\ fs \in FileSystems
    /\ dpPc = "call"
    /\ dpResult = None

\* device_path(devices, input) returns
DevicePathReturn ==
    /\ dpPc = "call"
    /\ ~DevicePathPanics(devices, input, fs)
    /\ dpResult' = DevicePathValue(devices, input, fs)
    /\ dpPc' = "returned"
    /\ UNCHANGED <<devices, input, fs, burnVars, listVars>>

\* device_path(devices, input) panics in canonicalize().unwrap()
DevicePathPanic ==
    /\ dpPc = "call"
    /\ DevicePathPanics(devices, input, fs)
    /\ dpPc' = "panicked"
    /\ UNCHANGED <<devices, input, fs, dpResult, burnVars, listVars>>

PathNext == DevicePathReturn \/ DevicePathPanic

PathSpec == PathInit /\ [][PathNext]_vars

\* ------------------------------------------------------- get_device_list
\* 1024*1024, the bytes of a mebibyte
MiB == 1048576

\* metadata(path).len() of the device nodes, in bytes
DeviceBytes(path) == IF path = "/dev/x" THEN 3 * MiB ELSE MiB - 1

\* File names of /dev/disk/by-id/, as sequences of characters:
\* "usb-K_1234", "usb-K_12-part1", "mmc-S_0x12" and "ata-K_1234".
EntryNames ==
    { <<"u", "s", "b", "-", "K", "_", "1", "2", "3", "4">>,
      <<"u", "s", "b", "-", "K", "_", "1", "2", "-", "p", "a", "r", "t", "1">>,
      <<"m", "m", "c", "-", "S", "_", "0", "x", "1", "2">>,
      <<"a", "t", "a", "-", "K", "_", "1", "2", "3", "4">> }

\* A directory entry: its file name, the canonical path its link resolves
\* to, and the call that fails on it ("none" when none does): "entry" is an
\* Err item of the ReadDir iterator, "canonicalize" a link that does not
\* resolve, "metadata" a failing metadata lookup.
DirEntrySet ==
    [name : EntryNames, target : DevicePaths,
     err : {"none", "entry", "canonicalize", "metadata"}]

\* s without its first k characters
Drop(str, k) == SubSeq(str, k + 1, Len(str))

\* ^(?:mmc|usb)-
HasBusPrefix(str) ==
    /\ Len(str) >= 4
    /\ SubSeq(str, 1, 4) \in {<<"m", "m", "c", "-">>, <<"u", "s", "b", "-">>}

\* index of the first "_" of str, 0 when there is none
FirstUnderscore(str) ==
    LET U == {i \in 1..Len(str) : str[i] = "_"} IN
    IF U = {} THEN 0 ELSE CHOOSE i \in U : \A j \in U : i <= j

\* [^-]*[^p][^a][^r][^t].?$
TailMatches(t) ==
    \E k \in 0..Len(t) :
        /\ \A i \in 1..k : t[i] # "-"
        /\ Len(t) - k \in {4, 5}
        /\ t[k + 1] # "p"
        /\ t[k + 2] # "a"
        /\ t[k + 3] # "r"
        /\ t[k + 4] # "t"
        /\ Len(t) - k = 5 => t[k + 5] # "\n"

\* RE.captures(&name): Some(caps[1]) when the name matches
\* ^(?:mmc|usb)-([^_]*)_[^-]*[^p][^a][^r][^t].?$, None otherwise
RECaptures(name) ==
    IF ~HasBusPrefix(name) THEN None
    ELSE LET rest == Drop(name, 4)
             u == FirstUnderscore(rest)
         IN IF u = 0 THEN None
            ELSE IF TailMatches(Drop(rest, u))
                 THEN Some(SubSeq(rest, 1, u - 1))
                 ELSE None

\* the body of the for loop for an entry on which no call fails
PushEntry(ps, e) ==
    LET caps == RECaptures(e.name) IN
    IF caps # None
    THEN Append(ps, Device(caps[1], e.target, DeviceBytes(e.target) \div MiB))
    ELSE ps

ListInit ==
    /\ BurnIdle
    /\ PathIdle
    /\ dirEntries \in SeqsUpTo(DirEntrySet, MaxEntries)
    /\ scanPc = "readDir"
    /\ scanIdx = 0
    /\ scanErr = "none"
    /\ paths = <<>>

\* let mut paths = Vec::new(); read_dir("/dev/disk/by-id/").unwrap()
ReadDirOk ==
    /\ scanPc = "readDir"
    /\ paths' = <<>>
    /\ scanIdx' = 0
    /\ scanPc' = "scan"
    /\ UNCHANGED <<dirEntries, scanErr, burnVars, pathVars>>

ReadDirFail ==
    /\ scanPc = "readDir"
    /\ scanErr' = "readDir"
    /\ scanPc' = "panicked"
    /\ UNCHANGED <<dirEntries, scanIdx, paths, burnVars, pathVars>>

\* one iteration of the for loop in which every call succeeds
ScanEntryOk ==
    /\ scanPc = "scan"
    /\ scanIdx < Len(dirEntries)
    /\ dirEntries[scanIdx + 1].err = "none"
    /\ paths' = PushEntry(paths, dirEntries[scanIdx + 1])
    /\ scanIdx' = scanIdx + 1
    /\ UNCHANGED <<dirEntries, scanPc, scanErr, burnVars, pathVars>>

\* one iteration in which path.unwrap(), canonicalize().unwrap() or
\* metadata(..).unwrap() panics
ScanEntryFail ==
    /\ scanPc = "scan"
    /\ scanIdx < Len(dirEntries)
    /\ dirEntries[scanIdx + 1].err # "none"
    /\ scanErr' = dirEntries[scanIdx + 1].err
    /\ scanPc' = "panicked"
    /\ UNCHANGED <<dirEntries, scanIdx, paths, burnVars, pathVars>>

\* the iterator is exhausted: paths is returned
ScanReturn ==
    /\ scanPc = "scan"
    /\ scanIdx = Len(dirEntries)
    /\ scanPc' = "returned"
    /\ UNCHANGED <<dirEntries, scanIdx, scanErr, paths, burnVars, pathVars>>

ListNext ==
    \/ ReadDirOk \/ ReadDirFail
    \/ ScanEntryOk \/ ScanEntryFail
    \/ ScanReturn

ListSpec == ListInit /\ [][ListNext]_vars

\* ------------------------------------------------------- event sequences
Types(evs) == [i \in 1..Len(evs) |-> evs[i].type]

IndicesOf(evs, t) == {i \in 1..Len(evs) : evs[i].type = t}

IsTerminal(e) == e.type \in {"End", "Error"}

\* The counts of the Progress events of evs, in order.
RECURSIVE ProgressCounts(_)
ProgressCounts(evs) ==
    IF evs = <<>> THEN <<>>
    ELSE IF Head(evs).type = "Progress"
         THEN <<Head(evs).count>> \o ProgressCounts(Tail(evs))
         ELSE ProgressCounts(Tail(evs))

\* Start, zero or more Progress, then exactly one of End / Error.
CompleteRun(evs) ==
    /\ Len(evs) >= 2
    /\ evs[1].type = "Start"
    /\ IsTerminal(evs[Len(evs)])
    /\ \A i \in 2..(Len(evs) - 1) : evs[i].type = "Progress"

EndSent == IndicesOf(events, "End") # {}

\* ---------------------------------------------------------------- claims

\* C1: every run of burn_image, failing ones included, has sent exactly
\* one Start first, then zero or more Progress, then exactly one terminal
\* event (End xor Error) last, and nothing after it.
C1_EventProtocol == Finished => CompleteRun(events)

\* C2: the counts of successive Progress events are non-decreasing, and in
\* a run that ends with End the last count equals the total announced in
\* Start (total = 0 when there is no Progress event).
C2_MonotonicProgress ==
    LET cs == ProgressCounts(events) IN
    /\ \A i \in 1..Len(cs) : \A j \in i..Len(cs) : cs[i] <= cs[j]
    /\ EndSent =>
        (IF cs = <<>> THEN 0 ELSE cs[Len(cs)]) = events[1].total

\* C2 witness: a run that ended with End after several Progress events.
C2_Witness ==
    /\ pc = "done"
    /\ EndSent
    /\ Len(ProgressCounts(events)) >= 3

\* C3: when burn_image runs to End, the destination's content is
\* byte-identical to the source image.
C3_RoundTrip == (pc = "done" /\ EndSent) => deviceFile = imageFile

\* C4: with Verify set, the digest carried by End is the hash of the whole
\* image computed in one pass, however the reads split the image.
C4_ChunkingIndependence ==
    \A i \in IndicesOf(events, "End") :
        "Verify" \in settings =>
            events[i].digest =
                Some(Sha256Result(Sha256Input(Sha256Default, imageFile)))

\* C4 witness: a verified run that ended with End after reads shorter than
\* the buffer (more chunks than full buffers would give).
C4_Witness ==
    /\ "Verify" \in settings
    /\ EndSent
    /\ Len(imageFile) >= 3
    /\ Len(ProgressCounts(events)) * BUFFER4MB >= Len(imageFile) + BUFFER4MB

\* C5: a device write or sync failure is delivered as the Error event
\* after Start and Progress events whose final count is at most the bytes
\* written, without End and without aborting the thread.
C5_WriteFailureIsError ==
    (Finished /\ errs \cap {"write", "sync"} # {}) =>
        /\ pc = "done"
        /\ CompleteRun(events)
        /\ events[Len(events)] = ErrorEv
        /\ LET cs == ProgressCounts(events) IN
           cs # <<>> => cs[Len(cs)] <= devPos

\* C6: a failure to stat the image or to open the image or the device is
\* reported by sending Error, and burn_image returns instead of panicking.
C6_OpenFailureIsError ==
    (Finished /\ errs \cap {"stat", "openImage", "openDevice"} # {}) =>
        /\ pc = "done"
        /\ events # <<>>
        /\ events[Len(events)] = ErrorEv

\* C7: a send that fails because the consumer dropped its end does not
\* crash the engine; burn_image returns early.
C7_SendFailureNoCrash == "send" \in errs => pc = "done"

\* C8: once a read of the image has failed, burn_image sends Error (the
\* channel accepts it unless the consumer is gone) and stops: no End, no
\* further Progress, no further write to the device.
C8_ReadFailureStops ==
    /\ []("read" \in errs =>
            /\ pc \in {"sendError", "done", "panicked"}
            /\ ~EndSent
            /\ pc = "done" => events[Len(events)] = ErrorEv
            /\ pc = "panicked" => ~rxAlive)
    /\ [][ "read" \in errs =>
            /\ deviceFile' = deviceFile
            /\ devPos' = devPos
            /\ events' = events \/ events' = Append(events, ErrorEv)
         ]_vars

\* C8 witness: the read failed after a chunk had been burnt, and the run
\* ended with Error.
C8_Witness ==
    /\ "read" \in errs
    /\ pc = "done"
    /\ Types(events) = <<"Start", "Progress", "Error">>

\* C9: End carries Some(hash) if and only if config.settings contains
\* Verify, and None otherwise.
C9_DigestIffVerify ==
    \A i \in IndicesOf(events, "End") :
        /\ "Verify" \in settings => Len(events[i].digest) = 1
        /\ "Verify" \notin settings => events[i].digest = None

\* C9 witness: End was sent for a non-empty image with Verify set.
C9_Witness ==
    /\ EndSent
    /\ "Verify" \in settings
    /\ imageFile # <<>>
    /\ events[Len(events)].digest # None

\* C10: burning an empty image sends exactly Start{total: 0} then
\* End{digest}; no Progress is sent and the device is never written.
C10_EmptyImage ==
    imageFile = <<>> =>
        /\ IndicesOf(events, "Progress") = {}
        /\ pc \notin {"write", "sync", "sendProgress"}
        /\ devPos = 0
        /\ pc = "done" /\ errs = {} =>
            events = <<StartEv(0), EndEv(DigestOf("Verify" \in settings,
                                                 Sha256Default))>>

\* C10 witness: the burn of an empty image has completed.
C10_Witness ==
    /\ imageFile = <<>>
    /\ pc = "done"
    /\ Types(events) = <<"Start", "End">>

\* The count of the last Progress event of evs, 0 when there is none.
LastCount(evs) ==
    LET cs == ProgressCounts(evs) IN IF cs = <<>> THEN 0 ELSE cs[Len(cs)]

\* C13: when Progress{count, total} has been sent, the chunk it reports is
\* written and synced: count equals the number of bytes written to the
\* device and made durable so far.
C13_CountIsDurable ==
    (events # <<>> /\ events[Len(events)].type = "Progress"
        /\ pc \in {"read", "write", "sync"}) =>
            events[Len(events)].count = synced

\* C14: after a send has failed because the consumer closed its end,
\* burn_image does no further read, write or sync and holds no handle.
C14_NoIoAfterSendFailure ==
    /\ []("send" \in errs => Finished /\ handles = {})
    /\ [][ "send" \in errs =>
            /\ imgPos' = imgPos
            /\ devPos' = devPos
            /\ deviceFile' = deviceFile
            /\ synced' = synced
            /\ buffer' = buffer
         ]_vars

\* C14 witness: the send of a Progress event failed in the middle of a
\* burn, with chunks still unread.
C14_Witness ==
    /\ "send" \in errs
    /\ events # <<>>
    /\ imgPos < Len(imageFile)
    /\ devPos > 0

\* C16: if the image cannot be statted, the device is never opened and
\* never written.
C16_StatFailureLeavesDevice ==
    /\ []("stat" \in errs =>
            /\ "device" \notin handles
            /\ pc \notin {"sendStart", "read", "write", "sync",
                          "sendProgress", "sendEnd", "sendError", "done"}
            /\ devPos = 0)
    /\ [][ "stat" \in errs => deviceFile' = deviceFile ]_vars

\* C16 witness: the stat of the image has failed.
C16_Witness == "stat" \in errs /\ Finished /\ deviceFile # <<>>

\* C17: one Progress event is sent per non-empty chunk read; its count is
\* the previous count (0 at start) plus the chunk's length, so that the
\* last count is the number of bytes of the completed chunks, and its
\* total is the total sent in Start.
C17_ProgressPerChunk ==
    /\ [](pc \in {"read", "write", "sync", "sendProgress", "sendEnd",
                  "sendError", "done"} =>
            /\ events # <<>>
            /\ events[1].type = "Start"
            /\ \A i \in IndicesOf(events, "Progress") :
                    events[i].total = events[1].total
            /\ LastCount(events) =
                 imgPos - (IF pc \in {"write", "sync", "sendProgress"}
                           THEN n ELSE 0))
    /\ [][ (Len(events') = Len(events) + 1
              /\ events'[Len(events')].type = "Progress") =>
            /\ pc = "sendProgress"
            /\ n > 0
            /\ events'[Len(events')].count = LastCount(events) + n
         ]_vars

\* C17 witness: two chunks of different lengths have been reported.
C17_Witness ==
    /\ Len(ProgressCounts(events)) = 2
    /\ ProgressCounts(events)[1] = 2
    /\ ProgressCounts(events)[2] = 3

\* C18: a burn only overwrites the device from offset 0 up to the number
\* of bytes written; the device is never truncated and every byte at an
\* offset at or beyond the image length is left unchanged.
C18_TailUnchanged ==
    [][ /\ Len(deviceFile') >= Len(deviceFile)
        /\ \A i \in 1..Len(deviceFile) :
              (i > devPos' \/ i > Len(imageFile)) =>
                  deviceFile'[i] = deviceFile[i]
      ]_vars

\* C18 witness: a burn has ended on a device that was longer than the
\* image, after writing at least one byte.
C18_Witness ==
    /\ pc = "done"
    /\ EndSent
    /\ devPos >= 1
    /\ Len(deviceFile) > Len(imageFile)

\* C20: with no I/O failure and a consumer that keeps its end open,
\* burn_image eventually terminates, having sent End.
C20_Terminates ==
    [](errs = {} /\ rxAlive) => <>(pc = "done" /\ EndSent)

\* C20 witness: a burn of the longest image has terminated with End and
\* without any failure.
C20_Witness ==
    /\ pc = "done"
    /\ EndSent
    /\ errs = {}
    /\ rxAlive
    /\ Len(imageFile) = MaxImageLen

\* the paths of the catalog entries whose name is the input
PathsNamed(devs, inp) == {devs[i].path : i \in NameMatches(devs, inp)}

\* the paths of all catalog entries
CatalogPaths(devs) == {devs[i].path : i \in 1..Len(devs)}

\* C11: device_path resolves (1) the sentinel to itself, whatever the
\* catalog holds; (2) otherwise an input that is an entry's name to that
\* entry's path, before any path match; (3) otherwise an input whose
\* canonical form is an entry's path to that canonical path; (4) otherwise
\* to None.
C11_Precedence ==
    dpPc \notin {"idle", "call"} =>
        /\ dpPc = "returned"
        /\ IF input = SentinelPath THEN dpResult = Some(input)
           ELSE IF PathsNamed(devices, input) # {}
                THEN \E q \in PathsNamed(devices, input) : dpResult = Some(q)
           ELSE IF fs[input] \in CatalogPaths(devices)
                THEN dpResult = Some(fs[input])
           ELSE dpResult = None

\* C12: for an input that is neither the sentinel nor a name and that
\* names a path which does not exist, device_path returns (absence or a
\* resolution error); it does not panic.
C12_MissingPathNoPanic ==
    (/\ dpPc \notin {"idle", "call"}
     /\ input # SentinelPath
     /\ PathsNamed(devices, input) = {}
     /\ fs[input] = NoSuchFile) => dpPc = "returned"

\* C19: whenever device_path returns Some(p), p is the sentinel input
\* itself or the path of an entry of the catalog; with an empty catalog the
\* only Some result is the sentinel.
C19_ResultFromCatalog ==
    (dpPc = "returned" /\ dpResult # None) =>
        /\ \/ input = SentinelPath /\ dpResult = Some(input)
           \/ dpResult[1] \in CatalogPaths(devices)
        /\ devices = <<>> => dpResult = Some(SentinelPath)

\* C19 witness: a name was resolved to the path of its entry.
C19_Witness ==
    /\ dpPc = "returned"
    /\ dpResult # None
    /\ input # SentinelPath
    /\ input \notin CatalogPaths(devices)
    /\ PathsNamed(devices, input) # {}

\* the Devices of the entries of es that resolve, have metadata and match
\* the name pattern, in directory order
RECURSIVE GoodDevices(_)
GoodDevices(es) ==
    IF es = <<>> THEN <<>>
    ELSE LET e == Head(es) IN
         IF e.err = "none" /\ RECaptures(e.name) # None
         THEN <<Device(RECaptures(e.name)[1], e.target,
                       DeviceBytes(e.target) \div MiB)>>
              \o GoodDevices(Tail(es))
         ELSE GoodDevices(Tail(es))

\* C15: in get_device_list an entry whose symlink resolution or metadata
\* lookup fails is skipped: the scan does not abort and returns a Device
\* for every other entry that matches the name pattern.
C15_FailingEntrySkipped ==
    (/\ scanPc \in {"returned", "panicked"}
     /\ scanErr # "readDir"
     /\ \A i \in 1..Len(dirEntries) :
            dirEntries[i].err \in {"none", "canonicalize", "metadata"}) =>
        /\ scanPc = "returned"
        /\ paths = GoodDevices(dirEntries)

====
